---- MODULE Spec2Model ----
(***************************************************************************)
(* Model of util/pcqueue.hh: the counting Semaphore, the bounded           *)
(* multi-producer multi-consumer PCQueue<T> and the single-producer        *)
(* single-consumer UnboundedSingleQueue<T>.                                *)
(*                                                                         *)
(* Every thread is a process with a program counter; one action is one     *)
(* atomic step of the code (a semaphore operation, a mutex acquisition,    *)
(* the value transfer, the cursor advance with the scope exit).            *)
(***************************************************************************)
EXTENDS Integers, Sequences, FiniteSets, TLC

\* ------------------------------------------------------------------ bounds
\* Capacity of the PCQueue under test (the constructor's size argument).
Size == 2
\* Number of Produce/ProduceSwap calls the producers start in total; the
\* n-th call started carries the value n.
MaxItems == 3
\* Largest value the counter of the Semaphore run on its own is posted to,
\* and the number of times one wait on it is interrupted at most.
MaxCount == 2
MaxInterrupts == 2
\* The smallest capacity a PCQueue is run with.
SmallSize == 1
\* Slots per UnboundedPage. The source has T entries[1023]; the model keeps
\* the page mechanism and scales the page down.
PageSize == 2
\* Number of Produce calls on the UnboundedSingleQueue.
MaxUItems == 5

\* ------------------------------------------------------------------ values
\* T(): the value of a default-constructed element (new T[size]).
Default == 0
\* A value left behind by an operator= or a move that threw part-way: valid
\* but unspecified, equal to no produced item.
Torn == 0 - 1

Producers == {"p1", "p2"}
Consumers == {"c1", "c2"}
Threads == Producers \cup Consumers
NoThread == "none"

\* What the caller's `out` holds when it calls Consume / ConsumeSwap: some
\* value of the caller's that is neither an item nor T().
Stale == 0 - 2

Items == 1..MaxItems

\* nullptr
Null == 0
Slots == 0..(Size - 1)

VARIABLES
  \* PCQueue members
  empty_, used_, storage_, produce_at_, consume_at_,
  produce_at_mutex_, consume_at_mutex_,
  \* per thread: position in the call and the caller's variable (val of
  \* Produce / ProduceSwap, out of Consume / ConsumeSwap)
  pc, val,
  \* history: number of producer calls started, the items in the order they
  \* were written, the items in the order they were taken, the values whose
  \* transfer into the queue failed, and per slot whether it holds an item
  \* written and not yet taken
  started, produced, consumed, failed, full,
  \* UnboundedSingleQueue members; the heap of UnboundedPage objects (next
  \* link and entries of every page allocated so far, and which of them
  \* have been deleted)
  valid_, filling_, reading_, filling_current_, reading_current_,
  next, entries, freed,
  \* the producer and the consumer thread of the UnboundedSingleQueue:
  \* position in the call, and the locals (val / the new page; out)
  upc, uval, unew, uout,
  \* history: number of Produce calls started, items in the order taken
  ustarted, uconsumed,
  \* a Semaphore on its own: the branch of the #ifdef it was compiled from,
  \* its counter, the position of the thread calling WaitSemaphore on it, what
  \* the underlying blocking call last reported, how often the call in
  \* progress was interrupted and how often it decremented the counter
  build, sem_, spc, serrno, interrupts, taken

vars == <<empty_, used_, storage_, produce_at_, consume_at_,
          produce_at_mutex_, consume_at_mutex_, pc, val,
          started, produced, consumed, failed, full,
          valid_, filling_, reading_, filling_current_, reading_current_,
          next, entries, freed, upc, uval, unew, uout, ustarted, uconsumed,
          build, sem_, spc, serrno, interrupts, taken>>

\* The Semaphore run on its own and its waiting thread.
svars == <<build, sem_, spc, serrno, interrupts, taken>>

\* The UnboundedSingleQueue and its two threads.
uvars == <<valid_, filling_, reading_, filling_current_, reading_current_,
           next, entries, freed, upc, uval, unew, uout, ustarted, uconsumed>>

\* The PCQueue and its threads.
bvars == <<empty_, used_, storage_, produce_at_, consume_at_,
           produce_at_mutex_, consume_at_mutex_, pc, val,
           started, produced, consumed, failed, full>>

queueVars == <<empty_, used_, storage_, produce_at_, consume_at_,
               produce_at_mutex_, consume_at_mutex_>>
histVars == <<started, produced, consumed, failed, full>>

\* Mutation: the wait also passes on a counter of 0 (>= written for >).
CanWait_OffByOne(value) == value >= 0

\* ------------------------------------------------------------------ Semaphore
\* sem_wait returns 0 only when it decremented a positive counter.
CanWait(value) == value > 0
AfterWait(value) == value - 1
\* sem_post increments the counter.
AfterPost(value) == value + 1

\* The three implementations the preprocessor chooses from: the Mach
\* wrapper (#ifdef __APPLE__), the POSIX wrapper (#elif defined(__linux)) and
\* boost::interprocess::interprocess_semaphore (#else).
Builds == {"apple", "linux", "boost"}

\* Semaphore(value) compiled for build b; no thread is in WaitSemaphore.
SemaphoreBuilt(b, value) ==
  /\ build = b
  /\ sem_ = value
  /\ spc = "idle"
  /\ serrno = "none"
  /\ interrupts = 0
  /\ taken = 0

\* semaphore.post() by some other thread.
SemPost ==
  /\ sem_ < MaxCount
  /\ sem_' = AfterPost(sem_)
  /\ UNCHANGED <<build, spc, serrno, interrupts, taken>>
  /\ UNCHANGED <<bvars, uvars>>

\* A thread calls WaitSemaphore(semaphore) and enters the underlying blocking
\* call: semaphore_wait, sem_wait or interprocess_semaphore::wait.
SemWaitCall ==
  /\ spc = "idle"
  /\ spc' = "wait"
  /\ serrno' = "none"
  /\ interrupts' = 0
  /\ taken' = 0
  /\ UNCHANGED <<build, sem_>>
  /\ UNCHANGED <<bvars, uvars>>

\* The blocking call succeeds: it decremented a positive counter, and
\* WaitSemaphore returns.
SemWaitAcquire ==
  /\ spc = "wait"
  /\ CanWait(sem_)
  /\ sem_' = AfterWait(sem_)
  /\ taken' = taken + 1
  /\ spc' = "returned"
  /\ UNCHANGED <<build, serrno, interrupts>>
  /\ UNCHANGED <<bvars, uvars>>

\* The blocking call is interrupted: sem_wait returns -1 with errno EINTR,
\* interprocess_semaphore::wait throws with native error EINTR,
\* semaphore_wait returns KERN_ABORTED. The counter is as it was.
SemWaitInterrupted ==
  /\ spc = "wait"
  /\ interrupts < MaxInterrupts
  /\ interrupts' = interrupts + 1
  /\ serrno' = "EINTR"
  /\ spc' = "failed"
  /\ UNCHANGED <<build, sem_, taken>>
  /\ UNCHANGED <<bvars, uvars>>

\* The blocking call fails for another reason (EINVAL, say).
SemWaitFails ==
  /\ spc = "wait"
  /\ serrno' = "EINVAL"
  /\ spc' = "failed"
  /\ UNCHANGED <<build, sem_, interrupts, taken>>
  /\ UNCHANGED <<bvars, uvars>>

\* linux: while (-1 == sem_wait(&sem_)) { UTIL_THROW_IF(errno != EINTR, ...); }
\* boost: catch (interprocess_exception &e) { if (e.get_native_error() !=
\* EINTR) throw; } and around the loop again.
SemWaitRetry ==
  /\ spc = "failed"
  /\ build \in {"linux", "boost"}
  /\ serrno = "EINTR"
  /\ spc' = "wait"
  /\ serrno' = "none"
  /\ UNCHANGED <<build, sem_, interrupts, taken>>
  /\ UNCHANGED <<bvars, uvars>>

\* linux and boost: the failure is not EINTR and is thrown. apple:
\* MACH_CALL(semaphore_wait(back_)) throws on every result that is not
\* KERN_SUCCESS; there is no loop.
SemWaitThrows ==
  /\ spc = "failed"
  /\ build = "apple" \/ serrno # "EINTR"
  /\ spc' = "threw"
  /\ UNCHANGED <<build, sem_, serrno, interrupts, taken>>
  /\ UNCHANGED <<bvars, uvars>>

\* The caller goes on, after the return or with the exception.
SemWaitOver ==
  /\ spc \in {"returned", "threw"}
  /\ spc' = "idle"
  /\ UNCHANGED <<build, sem_, serrno, interrupts, taken>>
  /\ UNCHANGED <<bvars, uvars>>

\* ------------------------------------------------------------------ T
\* target = source; threw: the target is left valid but unspecified.
FailedAssign(target, source) == {target, source, Torn}
\* std::move(x) consumed by an operation that threw: x may have been gutted.
MovedFrom(x) == {x, Torn}

\* std::swap(a, b) is  T tmp(std::move(a)); a = std::move(b); b = std::move(tmp);
\* The pairs <<a', b'>> it can leave behind when one of the three throws.
FailedSwap(a, b) ==
  \* T tmp(std::move(a)) threw
  { <<x, b>> : x \in MovedFrom(a) }
  \* a = std::move(b) threw; a had been moved from
  \cup { <<x, y>> : x \in FailedAssign(a, b) , y \in MovedFrom(b) }
  \* b = std::move(tmp) threw; a already holds the old b
  \cup { <<b, y>> : y \in FailedAssign(b, a) }

\* Mutation: the cursor wraps one slot early.
Advance_WrapsEarly(at) == IF at + 1 >= Size - 1 THEN 0 ELSE at + 1

\* end_(storage_.get() + size): one past the last slot of the ring.
end_ == Cardinality(DOMAIN storage_)

\* if (++at == end_) at = storage_.get();
Advance(at) == IF at + 1 = end_ THEN 0 ELSE at + 1

\* ------------------------------------------------------------------ Init
\* PCQueue(size): empty_(size), used_(0), storage_(new T[size]), both cursors
\* at storage_.get(); the mutexes unlocked; every thread outside any call.
Constructed(size) ==
  /\ empty_ = size
  /\ used_ = 0
  /\ storage_ = [i \in 0..(size - 1) |-> Default]
  /\ produce_at_ = 0
  /\ consume_at_ = 0
  /\ produce_at_mutex_ = NoThread
  /\ consume_at_mutex_ = NoThread
  /\ pc = [t \in Threads |-> "idle"]
  /\ val = [t \in Threads |-> Default]
  /\ started = 0
  /\ produced = <<>>
  /\ consumed = <<>>
  /\ failed = {}
  /\ full = [i \in 0..(size - 1) |-> FALSE]

\* The PCQueue under test: PCQueue<T> q(Size).
InitPCQueue == Constructed(Size)

\* ------------------------------------------------------------------ producers
\* A producer thread calls Produce(val) or ProduceSwap(val) with a fresh
\* value. The two member functions are the same statement for statement up
\* to the transfer, so which of them was called shows at the transfer.
CallProducer(t) ==
  /\ pc[t] = "idle"
  /\ started < MaxItems
  /\ started' = started + 1
  /\ val' = [val EXCEPT ![t] = started + 1]
  /\ pc' = [pc EXCEPT ![t] = "wait"]
  /\ UNCHANGED <<queueVars, produced, consumed, failed, full>>
  /\ UNCHANGED <<uvars, svars>>

\* Mutation: the wait checks the counter but does not take the slot.
ProducerWait_NoDecrement(t) ==
  /\ pc[t] = "wait"
  /\ CanWait(empty_)
  /\ pc' = [pc EXCEPT ![t] = "lock"]
  /\ UNCHANGED <<queueVars, val, histVars>>
  /\ UNCHANGED <<uvars, svars>>

\* WaitSemaphore(empty_);
ProducerWait(t) ==
  /\ pc[t] = "wait"
  /\ CanWait(empty_)
  /\ empty_' = AfterWait(empty_)
  /\ pc' = [pc EXCEPT ![t] = "lock"]
  /\ UNCHANGED <<used_, storage_, produce_at_, consume_at_,
                 produce_at_mutex_, consume_at_mutex_, val, histVars>>
  /\ UNCHANGED <<uvars, svars>>

\* std::lock_guard<std::mutex> produce_lock(produce_at_mutex_);
ProducerLock(t) ==
  /\ pc[t] = "lock"
  /\ produce_at_mutex_ = NoThread
  /\ produce_at_mutex_' = t
  /\ pc' = [pc EXCEPT ![t] = "xfer"]
  /\ UNCHANGED <<empty_, used_, storage_, produce_at_, consume_at_,
                 consume_at_mutex_, val, histVars>>
  /\ UNCHANGED <<uvars, svars>>

\* The slot write succeeded: the item is in the ring from now on.
Written(t, item) ==
  /\ produced' = Append(produced, item)
  /\ full' = [full EXCEPT ![produce_at_] = TRUE]
  /\ pc' = [pc EXCEPT ![t] = "advance"]
  /\ UNCHANGED <<started, consumed, failed>>

\* The slot write threw: control is in the catch (...) block.
WriteThrew(t, item) ==
  /\ failed' = failed \cup {item}
  /\ pc' = [pc EXCEPT ![t] = "catch"]
  /\ UNCHANGED <<started, produced, consumed, full>>

\* *produce_at_ = val;
ProduceAssign(t) ==
  /\ pc[t] = "xfer"
  /\ storage_' = [storage_ EXCEPT ![produce_at_] = val[t]]
  /\ Written(t, val[t])
  /\ UNCHANGED <<empty_, used_, produce_at_, consume_at_,
                 produce_at_mutex_, consume_at_mutex_, val>>
  /\ UNCHANGED <<uvars, svars>>

ProduceAssignThrows(t) ==
  /\ pc[t] = "xfer"
  /\ \E x \in FailedAssign(storage_[produce_at_], val[t]) :
       storage_' = [storage_ EXCEPT ![produce_at_] = x]
  /\ WriteThrew(t, val[t])
  /\ UNCHANGED <<empty_, used_, produce_at_, consume_at_,
                 produce_at_mutex_, consume_at_mutex_, val>>
  /\ UNCHANGED <<uvars, svars>>

\* Mutation: the slot's old value is dropped instead of handed back (a move
\* into the slot written for the swap).
ProduceSwapExchange_Discards(t) ==
  /\ pc[t] = "xfer"
  /\ storage_' = [storage_ EXCEPT ![produce_at_] = val[t]]
  /\ val' = [val EXCEPT ![t] = Default]
  /\ Written(t, val[t])
  /\ UNCHANGED <<empty_, used_, produce_at_, consume_at_,
                 produce_at_mutex_, consume_at_mutex_>>
  /\ UNCHANGED <<uvars, svars>>

\* std::swap(*produce_at_, val);
ProduceSwapExchange(t) ==
  /\ pc[t] = "xfer"
  /\ storage_' = [storage_ EXCEPT ![produce_at_] = val[t]]
  /\ val' = [val EXCEPT ![t] = storage_[produce_at_]]
  /\ Written(t, val[t])
  /\ UNCHANGED <<empty_, used_, produce_at_, consume_at_,
                 produce_at_mutex_, consume_at_mutex_>>
  /\ UNCHANGED <<uvars, svars>>

ProduceSwapThrows(t) ==
  /\ pc[t] = "xfer"
  /\ \E p \in FailedSwap(storage_[produce_at_], val[t]) :
       /\ storage_' = [storage_ EXCEPT ![produce_at_] = p[1]]
       /\ val' = [val EXCEPT ![t] = p[2]]
  /\ WriteThrew(t, val[t])
  /\ UNCHANGED <<empty_, used_, produce_at_, consume_at_,
                 produce_at_mutex_, consume_at_mutex_>>
  /\ UNCHANGED <<uvars, svars>>

\* Mutation: the catch block rethrows without empty_.post().
ProducerRollback_NoPost(t) ==
  /\ pc[t] = "catch" /\ t \in Producers
  /\ produce_at_mutex_' = NoThread
  /\ pc' = [pc EXCEPT ![t] = "idle"]
  /\ val' = [val EXCEPT ![t] = Default]
  /\ UNCHANGED <<empty_, used_, storage_, produce_at_, consume_at_,
                 consume_at_mutex_, histVars>>
  /\ UNCHANGED <<uvars, svars>>

\* Mutation: the cursor is advanced although the write threw.
ProducerRollback_Advances(t) ==
  /\ pc[t] = "catch" /\ t \in Producers
  /\ empty_' = AfterPost(empty_)
  /\ produce_at_' = Advance(produce_at_)
  /\ produce_at_mutex_' = NoThread
  /\ pc' = [pc EXCEPT ![t] = "idle"]
  /\ val' = [val EXCEPT ![t] = Default]
  /\ UNCHANGED <<used_, storage_, consume_at_, consume_at_mutex_, histVars>>
  /\ UNCHANGED <<uvars, svars>>

\* catch (...) { empty_.post(); throw; }  -- the unwinding releases the lock
\* and the exception leaves the call; the model stops tracking val.
ProducerRollback(t) ==
  /\ pc[t] = "catch" /\ t \in Producers
  /\ empty_' = AfterPost(empty_)
  /\ produce_at_mutex_' = NoThread
  /\ pc' = [pc EXCEPT ![t] = "idle"]
  /\ val' = [val EXCEPT ![t] = Default]
  /\ UNCHANGED <<used_, storage_, produce_at_, consume_at_,
                 consume_at_mutex_, histVars>>
  /\ UNCHANGED <<uvars, svars>>

\* if (++produce_at_ == end_) produce_at_ = storage_.get();  } -- end of the
\* lock_guard's scope. The rest of the call does not touch val: the model
\* stops tracking it here.
ProducerAdvance(t) ==
  /\ pc[t] = "advance" /\ t \in Producers
  /\ produce_at_' = Advance(produce_at_)
  /\ produce_at_mutex_' = NoThread
  /\ pc' = [pc EXCEPT ![t] = "post"]
  /\ val' = [val EXCEPT ![t] = Default]
  /\ UNCHANGED <<empty_, used_, storage_, consume_at_,
                 consume_at_mutex_, histVars>>
  /\ UNCHANGED <<uvars, svars>>

\* Mutation: the producer returns without posting used_.
ProducerPost_Forgotten(t) ==
  /\ pc[t] = "post" /\ t \in Producers
  /\ pc' = [pc EXCEPT ![t] = "idle"]
  /\ UNCHANGED <<empty_, used_, storage_, produce_at_, consume_at_,
                 produce_at_mutex_, consume_at_mutex_, val, histVars>>
  /\ UNCHANGED <<uvars, svars>>

\* used_.post();  and the call returns.
ProducerPost(t) ==
  /\ pc[t] = "post" /\ t \in Producers
  /\ used_' = AfterPost(used_)
  /\ pc' = [pc EXCEPT ![t] = "idle"]
  /\ UNCHANGED <<empty_, storage_, produce_at_, consume_at_,
                 produce_at_mutex_, consume_at_mutex_, val, histVars>>
  /\ UNCHANGED <<uvars, svars>>

\* ------------------------------------------------------------------ consumers
\* A consumer thread calls Consume(out) or ConsumeSwap(out); as for the
\* producers, which of the two shows at the transfer.
CallConsumer(t) ==
  /\ pc[t] = "idle"
  /\ Len(consumed) < MaxItems
  /\ val' = [val EXCEPT ![t] = Stale]
  /\ pc' = [pc EXCEPT ![t] = "wait"]
  /\ UNCHANGED <<queueVars, histVars>>
  /\ UNCHANGED <<uvars, svars>>

\* A consumer thread calls Consume(out) or ConsumeSwap(out) where the
\* consumers issue as many calls in total as the producers do: a call is
\* either finished, and then it took an item, or in progress.
CallConsumerOfN(t) ==
  /\ pc[t] = "idle"
  /\ Len(consumed) + Cardinality({c \in Consumers : pc[c] # "idle"}) < MaxItems
  /\ val' = [val EXCEPT ![t] = Stale]
  /\ pc' = [pc EXCEPT ![t] = "wait"]
  /\ UNCHANGED <<queueVars, histVars>>
  /\ UNCHANGED <<uvars, svars>>

\* WaitSemaphore(used_);
ConsumerWait(t) ==
  /\ pc[t] = "wait"
  /\ CanWait(used_)
  /\ used_' = AfterWait(used_)
  /\ pc' = [pc EXCEPT ![t] = "lock"]
  /\ UNCHANGED <<empty_, storage_, produce_at_, consume_at_,
                 produce_at_mutex_, consume_at_mutex_, val, histVars>>
  /\ UNCHANGED <<uvars, svars>>

\* std::lock_guard<std::mutex> consume_lock(consume_at_mutex_);
ConsumerLock(t) ==
  /\ pc[t] = "lock"
  /\ consume_at_mutex_ = NoThread
  /\ consume_at_mutex_' = t
  /\ pc' = [pc EXCEPT ![t] = "xfer"]
  /\ UNCHANGED <<empty_, used_, storage_, produce_at_, consume_at_,
                 produce_at_mutex_, val, histVars>>
  /\ UNCHANGED <<uvars, svars>>

\* The slot read succeeded: `got` is what the caller's out now holds.
Taken(t, got) ==
  /\ consumed' = Append(consumed, got)
  /\ full' = [full EXCEPT ![consume_at_] = FALSE]
  /\ pc' = [pc EXCEPT ![t] = "advance"]
  /\ UNCHANGED <<started, produced, failed>>

\* The slot read threw: control is in the catch (...) block.
ReadThrew(t) ==
  /\ pc' = [pc EXCEPT ![t] = "catch"]
  /\ UNCHANGED histVars

\* out = *consume_at_;
ConsumeAssign(t) ==
  /\ pc[t] = "xfer"
  /\ val' = [val EXCEPT ![t] = storage_[consume_at_]]
  /\ Taken(t, storage_[consume_at_])
  /\ UNCHANGED queueVars
  /\ UNCHANGED <<uvars, svars>>

\* The source of a copy assignment is const: only out can be damaged.
ConsumeAssignThrows(t) ==
  /\ pc[t] = "xfer"
  /\ \E x \in FailedAssign(val[t], storage_[consume_at_]) :
       val' = [val EXCEPT ![t] = x]
  /\ ReadThrew(t)
  /\ UNCHANGED queueVars
  /\ UNCHANGED <<uvars, svars>>

\* std::swap(out, *consume_at_);
ConsumeSwapExchange(t) ==
  /\ pc[t] = "xfer"
  /\ val' = [val EXCEPT ![t] = storage_[consume_at_]]
  /\ storage_' = [storage_ EXCEPT ![consume_at_] = val[t]]
  /\ Taken(t, storage_[consume_at_])
  /\ UNCHANGED <<empty_, used_, produce_at_, consume_at_,
                 produce_at_mutex_, consume_at_mutex_>>
  /\ UNCHANGED <<uvars, svars>>

ConsumeSwapThrows(t) ==
  /\ pc[t] = "xfer"
  /\ \E p \in FailedSwap(val[t], storage_[consume_at_]) :
       /\ val' = [val EXCEPT ![t] = p[1]]
       /\ storage_' = [storage_ EXCEPT ![consume_at_] = p[2]]
  /\ ReadThrew(t)
  /\ UNCHANGED <<empty_, used_, produce_at_, consume_at_,
                 produce_at_mutex_, consume_at_mutex_>>
  /\ UNCHANGED <<uvars, svars>>

\* Mutation: the catch block rethrows without used_.post().
ConsumerRollback_NoPost(t) ==
  /\ pc[t] = "catch" /\ t \in Consumers
  /\ consume_at_mutex_' = NoThread
  /\ pc' = [pc EXCEPT ![t] = "idle"]
  /\ val' = [val EXCEPT ![t] = Default]
  /\ UNCHANGED <<empty_, used_, storage_, produce_at_, consume_at_,
                 produce_at_mutex_, histVars>>
  /\ UNCHANGED <<uvars, svars>>

\* catch (...) { used_.post(); throw; }  -- the unwinding releases the lock
\* and the exception leaves the call; the model stops tracking out.
ConsumerRollback(t) ==
  /\ pc[t] = "catch" /\ t \in Consumers
  /\ used_' = AfterPost(used_)
  /\ consume_at_mutex_' = NoThread
  /\ pc' = [pc EXCEPT ![t] = "idle"]
  /\ val' = [val EXCEPT ![t] = Default]
  /\ UNCHANGED <<empty_, storage_, produce_at_, consume_at_,
                 produce_at_mutex_, histVars>>
  /\ UNCHANGED <<uvars, svars>>

\* if (++consume_at_ == end_) consume_at_ = storage_.get();  }  The rest of
\* the call does not touch out, which `consumed` has recorded: the model
\* stops tracking it here.
ConsumerAdvance(t) ==
  /\ pc[t] = "advance" /\ t \in Consumers
  /\ consume_at_' = Advance(consume_at_)
  /\ consume_at_mutex_' = NoThread
  /\ pc' = [pc EXCEPT ![t] = "post"]
  /\ val' = [val EXCEPT ![t] = Default]
  /\ UNCHANGED <<empty_, used_, storage_, produce_at_,
                 produce_at_mutex_, histVars>>
  /\ UNCHANGED <<uvars, svars>>

\* Mutation: one Consume gives back two slots.
ConsumerPost_Twice(t) ==
  /\ pc[t] = "post" /\ t \in Consumers
  /\ empty_' = AfterPost(AfterPost(empty_))
  /\ pc' = [pc EXCEPT ![t] = "idle"]
  /\ UNCHANGED <<used_, storage_, produce_at_, consume_at_,
                 produce_at_mutex_, consume_at_mutex_, val, histVars>>
  /\ UNCHANGED <<uvars, svars>>

\* Mutation: the consumer posts used_ where the code posts empty_.
ConsumerPost_WrongSemaphore(t) ==
  /\ pc[t] = "post" /\ t \in Consumers
  /\ used_' = AfterPost(used_)
  /\ pc' = [pc EXCEPT ![t] = "idle"]
  /\ UNCHANGED <<empty_, storage_, produce_at_, consume_at_,
                 produce_at_mutex_, consume_at_mutex_, val, histVars>>
  /\ UNCHANGED <<uvars, svars>>

\* empty_.post(); return out;
ConsumerPost(t) ==
  /\ pc[t] = "post" /\ t \in Consumers
  /\ empty_' = AfterPost(empty_)
  /\ pc' = [pc EXCEPT ![t] = "idle"]
  /\ UNCHANGED <<used_, storage_, produce_at_, consume_at_,
                 produce_at_mutex_, consume_at_mutex_, val, histVars>>
  /\ UNCHANGED <<uvars, svars>>

\* ------------------------------------------------------------------ UnboundedSingleQueue
\* A fresh UnboundedPage: next(nullptr), entries default-initialised.
NewPage == [i \in 0..(PageSize - 1) |-> Default]
\* The address the next `new UnboundedPage<T>()` returns.
FreshPage == Cardinality(DOMAIN next) + 1

\* entries + sizeof(to->entries) / sizeof(T), as an index into the page
filling_end_ == PageSize
reading_end_ == PageSize

\* UnboundedSingleQueue(): valid_(0), SetFilling(new UnboundedPage<T>()),
\* SetReading(filling_); both threads outside any call.
InitUnbounded ==
  /\ valid_ = 0
  /\ next = [p \in {1} |-> Null]
  /\ entries = [p \in {1} |-> NewPage]
  /\ freed = {}
  /\ filling_ = 1
  /\ filling_current_ = 0
  /\ reading_ = 1
  /\ reading_current_ = 0
  /\ upc = [t \in {"producer", "consumer"} |-> "idle"]
  /\ uval = Default
  /\ unew = Null
  /\ uout = Default
  /\ ustarted = 0
  /\ uconsumed = <<>>

\* The queues are run with a Semaphore of their own each; the Semaphore run
\* on its own stays as constructed meanwhile.
Init == InitPCQueue /\ InitUnbounded /\ SemaphoreBuilt("linux", 0)

\* The Semaphore on its own: any build, any initial value.
InitSemaphore ==
  /\ InitPCQueue
  /\ InitUnbounded
  /\ \E b \in Builds, value \in 0..MaxCount : SemaphoreBuilt(b, value)

\* PCQueue<T> q(SmallSize): a ring small enough for all producers to be
\* blocked on it at once.
InitSmall ==
  Constructed(SmallSize) /\ InitUnbounded /\ SemaphoreBuilt("linux", 0)

\* PCQueue<T> q(size) for any of the capacities from SmallSize to Size.
InitAnySize ==
  /\ \E size \in SmallSize..Size : Constructed(size)
  /\ InitUnbounded
  /\ SemaphoreBuilt("linux", 0)

\* void SetFilling(UnboundedPage<T> *to)
SetFilling(to) ==
  /\ filling_' = to
  /\ filling_current_' = 0

\* void SetReading(UnboundedPage<T> *to): reading_.reset(to) deletes the page
\* reading_ owned.
SetReading(to) ==
  /\ freed' = freed \cup {reading_}
  /\ reading_' = to
  /\ reading_current_' = 0

\* The producer thread calls Produce(val); the n-th call carries the value n.
UProduceCall ==
  /\ upc["producer"] = "idle"
  /\ ustarted < MaxUItems
  /\ ustarted' = ustarted + 1
  /\ uval' = ustarted + 1
  /\ upc' = [upc EXCEPT !["producer"] = "check"]
  /\ UNCHANGED <<valid_, filling_, reading_, filling_current_,
                 reading_current_, next, entries, freed, unew, uout,
                 uconsumed>>
  /\ UNCHANGED <<bvars, svars>>

\* if (filling_current_ == filling_end_)
UProduceCheck ==
  /\ upc["producer"] = "check"
  /\ upc' = [upc EXCEPT !["producer"] =
               IF filling_current_ = filling_end_ THEN "new" ELSE "write"]
  /\ UNCHANGED <<valid_, filling_, reading_, filling_current_,
                 reading_current_, next, entries, freed, uval, unew, uout,
                 ustarted, uconsumed>>
  /\ UNCHANGED <<bvars, svars>>

\* UnboundedPage<T> *next = new UnboundedPage<T>();
UProduceNew ==
  /\ upc["producer"] = "new"
  /\ unew' = FreshPage
  /\ next' = [p \in DOMAIN next \cup {FreshPage} |->
                IF p = FreshPage THEN Null ELSE next[p]]
  /\ entries' = [p \in DOMAIN entries \cup {FreshPage} |->
                IF p = FreshPage THEN NewPage ELSE entries[p]]
  /\ upc' = [upc EXCEPT !["producer"] = "link"]
  /\ UNCHANGED <<valid_, filling_, reading_, filling_current_,
                 reading_current_, freed, uval, uout, ustarted, uconsumed>>
  /\ UNCHANGED <<bvars, svars>>

\* Mutation: the new page is never linked behind the filling page.
UProduceLink_Forgotten ==
  /\ upc["producer"] = "link"
  /\ upc' = [upc EXCEPT !["producer"] = "setfilling"]
  /\ UNCHANGED <<valid_, filling_, reading_, filling_current_,
                 reading_current_, next, entries, freed, uval, unew, uout,
                 ustarted, uconsumed>>
  /\ UNCHANGED <<bvars, svars>>

\* filling_->next = next;
UProduceLink ==
  /\ upc["producer"] = "link"
  /\ next' = [next EXCEPT ![filling_] = unew]
  /\ upc' = [upc EXCEPT !["producer"] = "setfilling"]
  /\ UNCHANGED <<valid_, filling_, reading_, filling_current_,
                 reading_current_, entries, freed, uval, unew, uout,
                 ustarted, uconsumed>>
  /\ UNCHANGED <<bvars, svars>>

\* SetFilling(next);
UProduceSetFilling ==
  /\ upc["producer"] = "setfilling"
  /\ SetFilling(unew)
  /\ unew' = Null
  /\ upc' = [upc EXCEPT !["producer"] = "write"]
  /\ UNCHANGED <<valid_, reading_, reading_current_, next, entries, freed,
                 uval, uout, ustarted, uconsumed>>
  /\ UNCHANGED <<bvars, svars>>

\* Mutation: the producer writes only while fewer than a page of items is
\* pending, as a bounded buffer would.
UProduceWrite_Bounded ==
  /\ upc["producer"] = "write"
  /\ valid_ < PageSize
  /\ entries' = [entries EXCEPT ![filling_][filling_current_] = uval]
  /\ filling_current_' = filling_current_ + 1
  /\ upc' = [upc EXCEPT !["producer"] = "post"]
  /\ UNCHANGED <<valid_, filling_, reading_, reading_current_, next, freed,
                 uval, unew, uout, ustarted, uconsumed>>
  /\ UNCHANGED <<bvars, svars>>

\* *(filling_current_++) = val;
UProduceWrite ==
  /\ upc["producer"] = "write"
  /\ entries' = [entries EXCEPT ![filling_][filling_current_] = uval]
  /\ filling_current_' = filling_current_ + 1
  /\ upc' = [upc EXCEPT !["producer"] = "post"]
  /\ UNCHANGED <<valid_, filling_, reading_, reading_current_, next, freed,
                 uval, unew, uout, ustarted, uconsumed>>
  /\ UNCHANGED <<bvars, svars>>

\* *(filling_current_++) = val;  where T::operator= throws. The operand
\* filling_current_++ is evaluated, side effect included, before operator=
\* is entered, so the cursor has moved on when the exception leaves Produce;
\* nothing catches it and valid_.post() is not reached.
UProduceWriteThrows ==
  /\ upc["producer"] = "write"
  /\ \E left \in FailedAssign(entries[filling_][filling_current_], uval) :
       entries' = [entries EXCEPT ![filling_][filling_current_] = left]
  /\ filling_current_' = filling_current_ + 1
  /\ uval' = Default
  /\ upc' = [upc EXCEPT !["producer"] = "idle"]
  /\ UNCHANGED <<valid_, filling_, reading_, reading_current_, next, freed,
                 unew, uout, ustarted, uconsumed>>
  /\ UNCHANGED <<bvars, svars>>

\* Mutation: the producer posts twice for one item.
UProducePost_Twice ==
  /\ upc["producer"] = "post"
  /\ valid_' = AfterPost(AfterPost(valid_))
  /\ uval' = Default
  /\ upc' = [upc EXCEPT !["producer"] = "idle"]
  /\ UNCHANGED <<filling_, reading_, filling_current_, reading_current_,
                 next, entries, freed, unew, uout, ustarted, uconsumed>>
  /\ UNCHANGED <<bvars, svars>>

\* valid_.post();  and the call returns.
UProducePost ==
  /\ upc["producer"] = "post"
  /\ valid_' = AfterPost(valid_)
  /\ uval' = Default
  /\ upc' = [upc EXCEPT !["producer"] = "idle"]
  /\ UNCHANGED <<filling_, reading_, filling_current_, reading_current_,
                 next, entries, freed, unew, uout, ustarted, uconsumed>>
  /\ UNCHANGED <<bvars, svars>>

\* The consumer thread calls Consume(out).
UConsumeCall ==
  /\ upc["consumer"] = "idle"
  /\ Len(uconsumed) < MaxUItems
  /\ uout' = Stale
  /\ upc' = [upc EXCEPT !["consumer"] = "wait"]
  /\ UNCHANGED <<valid_, filling_, reading_, filling_current_,
                 reading_current_, next, entries, freed, uval, unew,
                 ustarted, uconsumed>>
  /\ UNCHANGED <<bvars, svars>>

\* Mutation: Consume does not wait for an item to be posted.
UConsumeWait_NoBlock ==
  /\ upc["consumer"] = "wait"
  /\ valid_' = AfterWait(valid_)
  /\ upc' = [upc EXCEPT !["consumer"] = "check"]
  /\ UNCHANGED <<filling_, reading_, filling_current_, reading_current_,
                 next, entries, freed, uval, unew, uout, ustarted,
                 uconsumed>>
  /\ UNCHANGED <<bvars, svars>>

\* WaitSemaphore(valid_);
UConsumeWait ==
  /\ upc["consumer"] = "wait"
  /\ CanWait(valid_)
  /\ valid_' = AfterWait(valid_)
  /\ upc' = [upc EXCEPT !["consumer"] = "check"]
  /\ UNCHANGED <<filling_, reading_, filling_current_, reading_current_,
                 next, entries, freed, uval, unew, uout, ustarted,
                 uconsumed>>
  /\ UNCHANGED <<bvars, svars>>

\* Mutation: the consumer leaves its page one slot early.
UConsumeCheck_Early ==
  /\ upc["consumer"] = "check"
  /\ upc' = [upc EXCEPT !["consumer"] =
               IF reading_current_ + 1 >= reading_end_ THEN "setreading"
                                                       ELSE "read"]
  /\ UNCHANGED <<valid_, filling_, reading_, filling_current_,
                 reading_current_, next, entries, freed, uval, unew, uout,
                 ustarted, uconsumed>>
  /\ UNCHANGED <<bvars, svars>>

\* if (reading_current_ == reading_end_)
UConsumeCheck ==
  /\ upc["consumer"] = "check"
  /\ upc' = [upc EXCEPT !["consumer"] =
               IF reading_current_ = reading_end_ THEN "setreading" ELSE "read"]
  /\ UNCHANGED <<valid_, filling_, reading_, filling_current_,
                 reading_current_, next, entries, freed, uval, unew, uout,
                 ustarted, uconsumed>>
  /\ UNCHANGED <<bvars, svars>>

\* SetReading(reading_->next);  A null next makes to->entries a null
\* dereference: the thread is lost.
UConsumeSetReading ==
  /\ upc["consumer"] = "setreading"
  /\ SetReading(next[reading_])
  /\ upc' = [upc EXCEPT !["consumer"] =
               IF next[reading_] = Null THEN "crash" ELSE "read"]
  /\ UNCHANGED <<valid_, filling_, filling_current_, next, entries, uval,
                 unew, uout, ustarted, uconsumed>>
  /\ UNCHANGED <<bvars, svars>>

\* out = *(reading_current_++); return out;
UConsumeRead ==
  /\ upc["consumer"] = "read"
  /\ uout' = entries[reading_][reading_current_]
  /\ reading_current_' = reading_current_ + 1
  /\ uconsumed' = Append(uconsumed, entries[reading_][reading_current_])
  /\ upc' = [upc EXCEPT !["consumer"] = "idle"]
  /\ UNCHANGED <<valid_, filling_, reading_, filling_current_, next,
                 entries, freed, uval, unew, ustarted>>
  /\ UNCHANGED <<bvars, svars>>

\* out = *(reading_current_++);  where T::operator= throws: the wait has
\* taken one from valid_ and the cursor has moved on when the exception
\* leaves Consume; nothing catches it.
UConsumeReadThrows ==
  /\ upc["consumer"] = "read"
  /\ uout' \in FailedAssign(uout, entries[reading_][reading_current_])
  /\ reading_current_' = reading_current_ + 1
  /\ upc' = [upc EXCEPT !["consumer"] = "idle"]
  /\ UNCHANGED <<valid_, filling_, reading_, filling_current_, next,
                 entries, freed, uval, unew, ustarted, uconsumed>>
  /\ UNCHANGED <<bvars, svars>>

\* One step of the producer thread.
UProducerStep ==
  \/ UProduceCall
  \/ UProduceCheck
  \/ UProduceNew
  \/ UProduceLink
  \/ UProduceSetFilling
  \/ UProduceWrite
  \/ UProducePost

\* One step of the consumer thread.
UConsumerStep ==
  \/ UConsumeCall
  \/ UConsumeWait
  \/ UConsumeCheck
  \/ UConsumeSetReading
  \/ UConsumeRead

\* ------------------------------------------------------------------ specifications
\* Every step of every call, except a throwing ConsumeSwap.
NextSound ==
  \/ \E t \in Producers : CallProducer(t)
  \/ \E t \in Producers : ProducerWait(t)
  \/ \E t \in Producers : ProducerLock(t)
  \/ \E t \in Producers : ProduceAssign(t)
  \/ \E t \in Producers : ProduceAssignThrows(t)
  \/ \E t \in Producers : ProduceSwapExchange(t)
  \/ \E t \in Producers : ProduceSwapThrows(t)
  \/ \E t \in Producers : ProducerRollback(t)
  \/ \E t \in Producers : ProducerAdvance(t)
  \/ \E t \in Producers : ProducerPost(t)
  \/ \E t \in Consumers : CallConsumer(t)
  \/ \E t \in Consumers : ConsumerWait(t)
  \/ \E t \in Consumers : ConsumerLock(t)
  \/ \E t \in Consumers : ConsumeAssign(t)
  \/ \E t \in Consumers : ConsumeAssignThrows(t)
  \/ \E t \in Consumers : ConsumeSwapExchange(t)
  \/ \E t \in Consumers : ConsumerRollback(t)
  \/ \E t \in Consumers : ConsumerAdvance(t)
  \/ \E t \in Consumers : ConsumerPost(t)

\* All of PCQueue: the four member functions, each transfer free to throw.
Next ==
  \/ NextSound
  \/ \E t \in Consumers : ConsumeSwapThrows(t)

Spec == Init /\ [][Next]_vars

SpecSound == Init /\ [][NextSound]_vars

\* ~UnboundedSingleQueue(), which the class leaves implicit: the members are
\* destroyed in reverse order of declaration. The cursors and filling_ are
\* raw pointers, whose destruction does nothing; ~unique_ptr deletes the
\* page reading_ owns, and ~UnboundedPage, implicit as well, does not touch
\* the page its next link points to. The queue is destroyed once no call is
\* in progress, whatever it still holds.
UDestroy ==
  /\ upc["producer"] = "idle"
  /\ upc["consumer"] = "idle"
  /\ freed' = freed \cup {reading_}
  /\ upc' = [t \in DOMAIN upc |-> "destroyed"]
  /\ UNCHANGED <<valid_, filling_, reading_, filling_current_,
                 reading_current_, next, entries, uval, unew, uout,
                 ustarted, uconsumed>>
  /\ UNCHANGED <<bvars, svars>>

\* All of PCQueue on the small ring.
SpecSmall == InitSmall /\ [][Next]_vars

\* One step of producer t, and of consumer t, where no transfer throws.
ProducerRun(t) ==
  \/ CallProducer(t)
  \/ ProducerWait(t)
  \/ ProducerLock(t)
  \/ ProduceAssign(t)
  \/ ProduceSwapExchange(t)
  \/ ProducerAdvance(t)
  \/ ProducerPost(t)

ConsumerRun(t) ==
  \/ CallConsumerOfN(t)
  \/ ConsumerWait(t)
  \/ ConsumerLock(t)
  \/ ConsumeAssign(t)
  \/ ConsumeSwapExchange(t)
  \/ ConsumerAdvance(t)
  \/ ConsumerPost(t)

\* PCQueue without failures: MaxItems calls of the producers and MaxItems
\* calls of the consumers, on a ring of any capacity.
NextRun ==
  \/ \E t \in Producers : ProducerRun(t)
  \/ \E t \in Consumers : ConsumerRun(t)

\* Fair scheduling: a thread that can take a step is not left out forever.
SpecRunFair ==
  /\ InitAnySize
  /\ [][NextRun]_vars
  /\ \A t \in Producers : WF_vars(ProducerRun(t))
  /\ \A t \in Consumers : WF_vars(ConsumerRun(t))

\* The UnboundedSingleQueue with its one producer and its one consumer.
NextU ==
  \/ UProduceCall
  \/ UProduceCheck
  \/ UProduceNew
  \/ UProduceLink
  \/ UProduceSetFilling
  \/ UProduceWrite
  \/ UProducePost
  \/ UConsumeCall
  \/ UConsumeWait
  \/ UConsumeCheck
  \/ UConsumeSetReading
  \/ UConsumeRead

SpecU == Init /\ [][NextU]_vars

\* The same, with the producer thread scheduled again and again and nothing
\* promised about the consumer thread, which may never run.
SpecUProducerFair == Init /\ [][NextU]_vars /\ WF_vars(UProducerStep)

\* The UnboundedSingleQueue over its whole lifetime, destruction included.
NextULife ==
  \/ NextU
  \/ UDestroy

SpecULife == Init /\ [][NextULife]_vars

\* The UnboundedSingleQueue with an element type whose operator= may throw.
NextUThrows ==
  \/ NextU
  \/ UProduceWriteThrows
  \/ UConsumeReadThrows

SpecUThrows == Init /\ [][NextUThrows]_vars

\* The Semaphore on its own, with a thread waiting on it again and again
\* and posts from elsewhere.
NextSemaphore ==
  \/ SemPost
  \/ SemWaitCall
  \/ SemWaitAcquire
  \/ SemWaitInterrupted
  \/ SemWaitFails
  \/ SemWaitRetry
  \/ SemWaitThrows
  \/ SemWaitOver

SpecSemaphore == InitSemaphore /\ [][NextSemaphore]_vars

\* ------------------------------------------------------------------ properties
\* Threads of the PCQueue at one of the given positions.
At(group, places) == {t \in group : pc[t] \in places}
\* Every PCQueue thread is outside any call.
AllReturned == \A t \in Threads : pc[t] = "idle"
\* Number of items written into the ring and not yet taken out of it.
Unread == Len(produced) - Len(consumed)
\* How often v occurs in seq.
Count(seq, v) == Cardinality({i \in 1..Len(seq) : seq[i] = v})
\* Every value a slot or a caller's variable can hold.
Values == Items \cup {Default, Torn, Stale}
\* The slot the n-th written item occupies.
SlotOf(n) == (n - 1) % Size

\* C1: the PCQueue is FIFO across all producers and consumers: the items in
\* the order the consumers read them under consume_at_mutex_ are the items in
\* the order the producers wrote them under produce_at_mutex_ (a prefix of
\* them while items are pending, all of them once every call has returned and
\* nothing is left to take), also when the capacity is below the item count.
C1_Fifo ==
  /\ Len(consumed) <= Len(produced)
  /\ \A i \in 1..Len(consumed) : consumed[i] = produced[i]
  /\ (AllReturned /\ used_ = 0) => consumed = produced

\* Three items went through a ring of fewer slots, written by the two
\* producers in another order than their calls started.
C1_Witness ==
  /\ Size < MaxItems
  /\ Len(consumed) = MaxItems
  /\ consumed[1] = 2

\* Calls that passed their semaphore wait and have not yet posted.
InFlight == At(Threads, {"lock", "xfer", "advance", "catch", "post"})

\* C2: in every reachable state, under any interleaving of the four member
\* functions and with transfers that throw, empty_ + used_ + the number of
\* calls between their wait and their post equals the capacity.
C2_Accounting == empty_ + used_ + Cardinality(InFlight) = Size

\* A producer and a consumer are both in their catch block while a third
\* call holds a slot.
C2_Witness ==
  /\ At(Producers, {"catch"}) # {}
  /\ At(Consumers, {"catch"}) # {}
  /\ Cardinality(InFlight) = Size

\* C3: no loss and no duplication: at no point was a value delivered more
\* often than it was produced, and once every call has returned and the
\* consumers have drained the queue, the consumed values are the produced
\* values with the same multiplicities.
C3_NoLossNoDup ==
  /\ \A v \in Values : Count(consumed, v) <= Count(produced, v)
  /\ (AllReturned /\ used_ = 0) =>
       \A v \in Values : Count(consumed, v) = Count(produced, v)

\* Everything is drained after both producers wrote and a transfer failed.
C3_Witness ==
  /\ AllReturned /\ used_ = 0
  /\ Len(consumed) = MaxItems - 1
  /\ failed # {}

\* C4: backpressure: at most Size items are written and not yet read; while
\* Size items are unread no producer is past its wait with a slot to write
\* and empty_ is 0, so a Produce/ProduceSwap call cannot pass its wait; and
\* the slot a producer is about to write never holds an unread item.
C4_Backpressure ==
  /\ Unread <= Size
  /\ Unread = Size =>
       /\ empty_ = 0
       /\ At(Producers, {"lock", "xfer", "catch"}) = {}
  /\ \A t \in Producers : pc[t] = "xfer" => ~full[produce_at_]

\* The ring is full and a producer is blocked in its wait.
C4_Witness ==
  /\ Unread = Size
  /\ At(Producers, {"wait"}) # {}
  /\ ~CanWait(empty_)

\* C5: a producer transfer that throws is rolled back: empty_ is what the
\* ring's contents dictate (capacity minus unread items minus the slots other
\* calls hold), as before the call; produce_at_ stays on the slot of the
\* failed write, so the next successful write goes there; used_ counts only
\* posted items; the failed value is never delivered, and the items written
\* afterwards are taken in their FIFO position.
C5_ProduceRollback ==
  /\ empty_ = Size - Unread
                - Cardinality(At(Producers, {"lock", "xfer", "catch"}))
                - Cardinality(At(Consumers, {"advance", "post"}))
  /\ used_ = Unread
                - Cardinality(At(Producers, {"advance", "post"}))
                - Cardinality(At(Consumers, {"lock", "xfer", "catch"}))
  /\ produce_at_ =
       SlotOf(Len(produced) - Cardinality(At(Producers, {"advance"})) + 1)
  /\ \A i \in 1..Len(consumed) : consumed[i] \notin failed
  /\ \A i \in 1..Len(consumed) :
       i <= Len(produced) /\ consumed[i] = produced[i]

\* The first call failed and the value written next was taken first.
C5_Witness ==
  /\ 1 \in failed
  /\ Len(consumed) >= 1
  /\ consumed[1] = 2
  /\ AllReturned

\* C6: a consumer transfer that throws is rolled back: used_ counts the item
\* again, consume_at_ stays on it, empty_ was not posted, and the item is
\* still in its slot unchanged, so that the next successful Consume or
\* ConsumeSwap delivers exactly it.
C6_ConsumeRollback ==
  /\ used_ = Unread
                - Cardinality(At(Producers, {"advance", "post"}))
                - Cardinality(At(Consumers, {"lock", "xfer", "catch"}))
  /\ empty_ = Size - Unread
                - Cardinality(At(Producers, {"lock", "xfer", "catch"}))
                - Cardinality(At(Consumers, {"advance", "post"}))
  /\ consume_at_ =
       SlotOf(Len(consumed) - Cardinality(At(Consumers, {"advance"})) + 1)
  /\ \A n \in (Len(consumed) + 1)..Len(produced) :
       storage_[SlotOf(n)] = produced[n]
  /\ \A i \in 1..Len(consumed) :
       i <= Len(produced) /\ consumed[i] = produced[i]

\* C7: whatever call propagated an error, the queue stays consistent and
\* reusable: the capacity accounting holds, the cursors and the semaphore
\* counts agree with the slots written and read, and no item is lost or
\* delivered twice.
C7_ErrorLeavesQueueConsistent ==
  /\ empty_ + used_ + Cardinality(InFlight) = Size
  /\ produce_at_ =
       SlotOf(Len(produced) - Cardinality(At(Producers, {"advance"})) + 1)
  /\ consume_at_ =
       SlotOf(Len(consumed) - Cardinality(At(Consumers, {"advance"})) + 1)
  /\ used_ <= Unread
  /\ \A v \in Values : Count(consumed, v) <= Count(produced, v)
  /\ (AllReturned /\ used_ = 0) =>
       \A v \in Values : Count(consumed, v) = Count(produced, v)

\* The slots that hold an item written and not yet taken.
UnreadSlots == {SlotOf(n) : n \in (Len(consumed) + 1)..Len(produced)}

\* C8: every slot alternates between one write and one read. The steps that
\* touch a slot are the transfers: a producer's transfer, whether it succeeds
\* or throws, finds its slot without an unread item, and a consumer's finds
\* its slot completely written and not yet taken; the slots marked full are
\* exactly those of the unread items, one item each; and while both mutexes
\* are held the two cursors are on different slots.
C8_SlotAlternation ==
  /\ \A t \in Producers : pc[t] = "xfer" => ~full[produce_at_]
  /\ \A t \in Consumers : pc[t] = "xfer" => full[consume_at_]
  /\ \A i \in Slots : full[i] <=> i \in UnreadSlots
  /\ Cardinality(UnreadSlots) = Unread
  /\ (produce_at_mutex_ # NoThread /\ consume_at_mutex_ # NoThread)
       => produce_at_ # consume_at_

\* A producer and a consumer are in their critical sections at once, after
\* the ring wrapped around.
C8_Witness ==
  /\ At(Producers, {"xfer"}) # {}
  /\ At(Consumers, {"xfer"}) # {}
  /\ Len(produced) >= Size
  /\ Len(consumed) >= 1

\* C9: the UnboundedSingleQueue delivers every item once and in produced
\* order, across page boundaries: the i-th item taken is the i-th produced,
\* the consumer is never left waiting (or idle with nothing to claim) while a
\* produced item is undelivered, and it never follows a null next link.
C9_UnboundedFifo ==
  /\ Len(uconsumed) <= ustarted
  /\ \A i \in 1..Len(uconsumed) : uconsumed[i] = i
  /\ (upc["producer"] = "idle" /\ upc["consumer"] \in {"idle", "wait"}
        /\ ~CanWait(valid_)) => Len(uconsumed) = ustarted
  /\ upc["consumer"] # "crash"

\* All items were taken, the consumer having moved over two page boundaries.
C9_Witness ==
  /\ Len(uconsumed) = MaxUItems
  /\ Cardinality(freed) >= 2

\* C10: Produce never blocks: in every state a started Produce call has a
\* step to take, and with only the producer thread scheduled (the consumer
\* possibly never running) every started call returns.
C10_ProduceNeverBlocks ==
  /\ [](upc["producer"] # "idle" => ENABLED UProducerStep)
  /\ (upc["producer"] # "idle") ~> (upc["producer"] = "idle")

\* The producer is writing while more than a page of items is pending and
\* the consumer has not taken a single one.
C10_Witness ==
  /\ upc["producer"] = "write"
  /\ valid_ > PageSize
  /\ uconsumed = <<>>
  /\ upc["consumer"] = "idle"

\* Items the producer of the UnboundedSingleQueue has written so far: every
\* call started has written its item unless it is still before its write.
UWritten ==
  ustarted - (IF upc["producer"] \in {"check", "new", "link", "setfilling",
                                      "write"} THEN 1 ELSE 0)
\* Items written and not yet read by Consume.
UPending == UWritten - Len(uconsumed)

\* C11 as stated: in every reachable state valid_ is the number of items
\* written by Produce minus the number read by Consume.
C11_ValidIsPending == valid_ = UPending

\* C11, amended: valid_ is the number of items written and not read, less
\* the item a Produce call has written and not yet posted and less the item
\* a Consume call has claimed by its wait and not yet read; with no call
\* between its write and its post or between its wait and its read, the two
\* are equal.
C11_ValidCountsPosted ==
  /\ valid_ = UPending
                - (IF upc["producer"] = "post" THEN 1 ELSE 0)
                - (IF upc["consumer"] \in {"check", "setreading", "read"}
                     THEN 1 ELSE 0)
  /\ (upc["producer"] # "post"
        /\ upc["consumer"] \notin {"check", "setreading", "read"})
       => valid_ = UPending
  /\ valid_ >= 0

\* An item is written and unposted while another is claimed and unread, and
\* more are waiting.
C11_Witness ==
  /\ upc["producer"] = "post"
  /\ upc["consumer"] = "read"
  /\ valid_ >= 1
  /\ Len(uconsumed) >= PageSize


\* Every UnboundedPage allocated so far.
UPages == DOMAIN next

\* C12: every page allocated is destroyed exactly once over the lifetime of
\* the queue: a page is never deleted again after it was deleted (the page
\* the queue owns is never one already deleted), and once the queue is
\* destroyed no page is left undeleted, whatever was still unconsumed.
C12_PagesFreedOnce ==
  /\ upc["consumer"] # "destroyed" => reading_ \notin freed
  /\ upc["consumer"] = "destroyed" => freed = UPages


\* Slots the producer's cursor has passed, over all pages (pages are numbered
\* in the order of their allocation), and slots the consumer's has passed.
UFilled == (filling_ - 1) * PageSize + filling_current_
URead == (reading_ - 1) * PageSize + reading_current_

\* C13: a value-transfer failure in Produce or Consume of the
\* UnboundedSingleQueue leaves the queue as if the call had not been
\* attempted: between calls the semaphore counts exactly the slots the
\* producer's cursor has passed and the consumer's has not, and what is
\* delivered are produced items, each once and in produced order.
C13_UnboundedRollback ==
  /\ (upc["producer"] = "idle" /\ upc["consumer"] = "idle")
       => valid_ = UFilled - URead
  /\ \A i \in 1..Len(uconsumed) : uconsumed[i] \in 1..ustarted
  /\ \A i, j \in 1..Len(uconsumed) : i < j => uconsumed[i] < uconsumed[j]


\* What the slot of the n-th item written held before, by the list of C14:
\* T() for a slot never used, otherwise the item the last Consume left in
\* it or the value a ConsumeSwap caller swapped in.
ListedBefore(n) ==
  IF n <= end_ THEN {Default} ELSE {produced[n - end_], Stale}

\* A producer's transfer has just succeeded: the slot holds the item, and
\* the caller's val is the item still (Produce) or one of `before`
\* (ProduceSwap).
ProducerHolds(t, before) ==
  LET n == Len(produced) IN
    /\ storage_[produce_at_] = produced[n]
    /\ val[t] \in {produced[n]} \cup before

\* A consumer's transfer has just succeeded: out holds the item dequeued and
\* the slot holds the item still (Consume) or what out held before the call
\* (ConsumeSwap).
ConsumerHolds(t) ==
  /\ val[t] = consumed[Len(consumed)]
  /\ storage_[consume_at_] \in {val[t], Stale}

ReleasesProducer ==
  /\ At(Producers, {"wait"}) # {}
  /\ ~CanWait(empty_)
  /\ CanWait(empty_')

ReleasesConsumer ==
  /\ At(Consumers, {"wait"}) # {}
  /\ ~CanWait(used_)
  /\ CanWait(used_')

\* The step is the last statement of a call of the group (its post), or the
\* catch block of a call of the group whose transfer threw.
PostBy(group) == \E t \in group : pc[t] = "post" /\ pc'[t] = "idle"
RollbackBy(group) == \E t \in group : pc[t] = "catch" /\ pc'[t] = "idle"

\* C15 as stated: a blocked producer is released only by the post of a
\* consumer call and a blocked consumer only by the post of a producer call,
\* also where a same-role call fails its transfer.
C15_ReleasedByOppositeRole ==
  [][/\ ReleasesProducer => PostBy(Consumers)
     /\ ReleasesConsumer => PostBy(Producers)]_vars

\* C15, amended: a blocked producer is released only by the post of a
\* consumer call or by the catch block of a producer call whose transfer
\* threw, which gives its reserved slot back; a blocked consumer only by the
\* post of a producer call or by the catch block of a consumer call whose
\* transfer threw.
C15_ReleasedByPostOrRollback ==
  [][/\ ReleasesProducer => (PostBy(Consumers) \/ RollbackBy(Producers))
     /\ ReleasesConsumer => (PostBy(Producers) \/ RollbackBy(Consumers))]_vars

\* A producer is blocked with empty_ at 0 while another producer is in its
\* catch block, about to post empty_.
C15_Witness ==
  /\ ~CanWait(empty_)
  /\ At(Producers, {"wait"}) # {}
  /\ At(Producers, {"catch"}) # {}
  /\ At(Consumers, {"advance", "post"}) = {}


\* Producer calls that have passed their wait on empty_, and slots given
\* back so far: one by every consumer call that has posted, one by every
\* producer call whose transfer threw and whose catch block has posted.
Passed == started - Cardinality(At(Producers, {"wait"}))
Released ==
  (Len(consumed) - Cardinality(At(Consumers, {"advance", "post"})))
    + (Cardinality(failed) - Cardinality(At(Producers, {"catch"})))

\* C16: with several producers blocked on a full ring, one post of empty_
\* lets exactly one of them past its wait: every producer past its wait has
\* used up one slot of the ring or one slot given back, so the producers
\* that got past are never more than the slots there were, and while the
\* count is 0 no waiting producer can take a step.
C16_OnePostOnePass ==
  /\ empty_ >= 0
  /\ Passed + empty_ = end_ + Released
  /\ \A t \in Producers :
       (pc[t] = "wait" /\ empty_ = 0) => ~ENABLED ProducerWait(t)

\* Both producers were pending on a full ring and no transfer failed; one
\* Consume has completed, one producer is past its wait and the other is
\* still blocked.
C16_Witness ==
  /\ started = end_ + Cardinality(Producers)
  /\ Len(produced) = end_
  /\ Len(consumed) = 1
  /\ failed = {}
  /\ At(Consumers, {"idle"}) = Consumers
  /\ Cardinality(At(Producers, {"wait"})) = Cardinality(Producers) - 1
  /\ Cardinality(At(Producers, {"lock", "xfer"})) = 1
  /\ empty_ = 0


\* Slots of the ring that are not free: they hold an unread item, or a
\* producer past its wait has not written its item yet, or a consumer that
\* took the item has not posted empty_ yet. Items that can be claimed: the
\* unread ones, less those a consumer past its wait has not taken yet and
\* those whose producer has not posted used_ yet.
SlotsTaken ==
  Unread + Cardinality(At(Producers, {"lock", "xfer"}))
         + Cardinality(At(Consumers, {"advance", "post"}))
ItemsReady ==
  Unread - Cardinality(At(Consumers, {"lock", "xfer"}))
         - Cardinality(At(Producers, {"advance", "post"}))
Quiet == \A t \in Threads : pc[t] \in {"idle", "wait"}

\* C17: without failures, with as many Consume calls as Produce calls and
\* under fair scheduling, every call returns, on a ring of any capacity:
\* every thread inside a call gets out of it, and in the end all MaxItems
\* items have been produced and taken. A producer is blocked only while no
\* slot of the ring is free, which between the steps of the other calls
\* means the ring is full of unread items; a consumer is blocked only while
\* no item is ready, which between the steps of the other calls means the
\* ring is empty.
C17_EveryCallReturns ==
  /\ \A t \in Threads : (pc[t] # "idle") ~> (pc[t] = "idle")
  /\ <>[](AllReturned /\ Len(produced) = MaxItems /\ Len(consumed) = MaxItems)
  /\ [](\A t \in Producers :
          (pc[t] = "wait" /\ ~ENABLED ProducerWait(t))
            => /\ SlotsTaken = end_
               /\ Quiet => Unread = end_)
  /\ [](\A t \in Consumers :
          (pc[t] = "wait" /\ ~ENABLED ConsumerWait(t))
            => /\ ItemsReady = 0
               /\ Quiet => Unread = 0)

\* Every producer is blocked on a full ring while every consumer is idle,
\* and later every call has returned: here all the producers' calls are
\* pending and only a consumer can move.
C17_Witness ==
  /\ At(Producers, {"wait"}) = Producers
  /\ empty_ = 0
  /\ Unread = end_
  /\ At(Consumers, {"idle"}) = Consumers


\* C18: the consumer deletes a page only when every slot of it has been read
\* and the producer is done with it. The step that deletes a page deletes
\* the reading page, with the reading cursor at its end and the producer's
\* filling page a different one; the items taken so far fill every deleted
\* page; and the producer's pointers (filling_, through which it writes
\* entries and the next link, and its local next) never point to a deleted
\* page, nor does anything of a deleted page change again.
C18_FreedPageIsDone ==
  /\ [][freed' # freed
          => /\ freed' = freed \cup {reading_}
             /\ reading_current_ = reading_end_
             /\ filling_ # reading_
             /\ filling_' # reading_]_vars
  /\ [][\A p \in freed : entries'[p] = entries[p] /\ next'[p] = next[p]]_vars
  /\ [](filling_ \notin freed)
  /\ [](upc["producer"] \in {"link", "setfilling"} => unew \notin freed)
  /\ [](Cardinality(freed) * PageSize <= Len(uconsumed))

\* The consumer has deleted a page and the producer is writing again, to a
\* page further on.
C18_Witness ==
  /\ freed # {}
  /\ upc["producer"] = "write"
  /\ filling_ \notin freed
  /\ filling_ # reading_


\* C19: WaitSemaphore returns normally only after decrementing the counter
\* exactly once; an interruption of the blocking call (EINTR), however often
\* it happens, is retried inside and never leaves the call as an error, and
\* neither it nor any other failure changes the counter.
C19_WaitRetriesInterrupts ==
  /\ spc = "returned" => taken = 1
  /\ spc \in {"wait", "failed", "threw"} => taken = 0
  /\ spc = "threw" => serrno # "EINTR"


\* Items the producer has written and posted.
UPosted == UWritten - (IF upc["producer"] = "post" THEN 1 ELSE 0)

\* C20: Consume never reads a slot the producer has not finished writing:
\* the slot it is about to read is on a live page, inside it, was written and
\* posted, and holds the item that is next in produced order. Whenever
\* Consume finds its cursor at the end of the page after its wait, the next
\* link of the reading page is set; it never follows a null link. And when
\* valid_ is 0 with no call in progress, the reading page is the filling page
\* and the two cursors are equal.
C20_ConsumeReadsWritten ==
  /\ upc["consumer"] = "read"
       => /\ reading_ \in UPages \ freed
          /\ reading_current_ < reading_end_
          /\ URead < UPosted
          /\ entries[reading_][reading_current_] = Len(uconsumed) + 1
  /\ (upc["consumer"] \in {"check", "setreading"}
        /\ reading_current_ = reading_end_)
       => next[reading_] \in UPages \ freed
  /\ upc["consumer"] # "crash"
  /\ (valid_ = 0 /\ upc["producer"] = "idle" /\ upc["consumer"] = "idle")
       => (reading_ = filling_ /\ reading_current_ = filling_current_)

\* Everything produced has been taken, across a page boundary, and no call
\* is in progress.
C20_Witness ==
  /\ valid_ = 0
  /\ upc["producer"] = "idle"
  /\ upc["consumer"] = "idle"
  /\ Len(uconsumed) > PageSize
  /\ reading_ = filling_
  /\ reading_ # 1

====
